---- MODULE Spec2Model ----
(***************************************************************************)
(* Object-Relations: a data-access layer over three tables (authors,       *)
(* magazines, articles) in two packages, lib and projectlib, and the       *)
(* transactional writer lib.db.transaction.add_author_with_articles.       *)
(*                                                                         *)
(* Text values are sequences of one-character strings, so len() and        *)
(* strip() are computed.  Optional values (an id that may be None, a       *)
(* column that may be NULL) are sequences of length 0 or 1.                *)
(***************************************************************************)
EXTENDS Integers, Sequences, FiniteSets, TLC

\* ------------------------------------------------------------------ bounds
MaxRows == 2
MaxArticles == 2

\* ------------------------------------------------------- program constants
MaxNameLen == 255
MaxTitleLen == 255
MaxMagNameLen == 255
DefaultMinArticles == 2
HavingCount == 2

\* ------------------------------------------------------------ basic values
None == <<>>
Some(v) == <<v>>

Rep(c, n) == [i \in 1..n |-> c]
Empty == <<>>
Space == <<" ">>
TooLong == Rep("x", MaxNameLen + 1)
Content == <<"c">>
TS == "now"

Max(S) == CHOOSE x \in S : \A y \in S : y <= x

\* str.strip(): leading and trailing whitespace removed
RECURSIVE lstrip(_)
lstrip(s) == IF s # <<>> /\ Head(s) = " " THEN lstrip(Tail(s)) ELSE s

RECURSIVE rstrip(_)
rstrip(s) == IF s # <<>> /\ s[Len(s)] = " " THEN rstrip(SubSeq(s, 1, Len(s) - 1)) ELSE s

strip(s) == rstrip(lstrip(s))

\* ------------------------------------------------------------ input sets
AuthorNames == {Empty, Space, <<"a">>, <<"b">>, TooLong}
MagNames == {Empty, <<"a">>, <<"b">>}
Categories == {Empty, <<"n">>}
Titles == {Empty, <<"a">>, <<"b">>}
ShortTitles == {Empty, <<"a">>}
Contents == {Empty, Content}
AuthorRefs == {0, 1, 2}
MagazineRefs == {0, 1}
IdInputs == {None} \cup {Some(i) : i \in 0..MaxRows}
LookupIds == 0..MaxRows

\* ------------------------------------------------------------- validation
\* variant of Author._validate_name that tests "not self.name" (no strip)
Author_validate_name_no_strip(name) ==
    IF name = <<>> THEN "ValueError"
    ELSE IF Len(name) > MaxNameLen THEN "ValueError"
    ELSE "none"

\* lib Author._validate_name: the exception raised, or "none"
Author_validate_name(name) ==
    IF strip(name) = <<>> THEN "ValueError"
    ELSE IF Len(name) > MaxNameLen THEN "ValueError"
    ELSE "none"

\* lib Magazine._validate_fields
Magazine_validate_fields(name, category) ==
    IF strip(name) = <<>> THEN "ValueError"
    ELSE IF Len(name) > MaxMagNameLen THEN "ValueError"
    ELSE IF strip(category) = <<>> THEN "ValueError"
    ELSE "none"

\* lib Article._validate_fields; content is Optional (a NULL column reads as
\* None, which is not a str)
Article_validate_fields(title, content, author_id, magazine_id) ==
    IF strip(title) = <<>> THEN "ValueError"
    ELSE IF Len(title) > MaxTitleLen THEN "ValueError"
    ELSE IF content = None \/ strip(content[1]) = <<>> THEN "ValueError"
    ELSE IF author_id <= 0 THEN "ValueError"
    ELSE IF magazine_id <= 0 THEN "ValueError"
    ELSE "none"

\* ------------------------------------------------------------------ state
VARIABLES
    pkg,        \* the package the process imported: "lib" or "projectlib"
    cls,        \* the model class the process works with
    authors,    \* committed rows of table authors
    magazines,  \* committed rows of table magazines
    articles,   \* committed rows of table articles
    obj,        \* the in-memory entity the caller holds (Optional)
    res,        \* what the last operation did and returned
    stmt,       \* the INSERT/UPDATE the last operation issued (Optional)
    conn,       \* connection use of the last operation
    tx          \* the running add_author_with_articles call

store == <<authors, magazines, articles>>
vars == <<pkg, cls, authors, magazines, articles, obj, res, stmt, conn, tx>>

Packages == {"lib", "projectlib"}
Classes == {"Author", "Magazine", "Article"}

NoConn == [acquired |-> FALSE, open |-> FALSE]
\* no call of add_author_with_articles has been made
TxIdle ==
    [pc |-> "idle", name |-> <<>>, data |-> <<>>, i |-> 1, conn |-> "none",
     author_id |-> <<>>, pend_authors |-> {}, pend_articles |-> {},
     raising |-> "none", result |-> <<>>, before |-> <<{}, {}>>, log |-> <<>>]

\* sqlite3.connect(db_file) with no PRAGMA foreign_keys: REFERENCES clauses
\* are not enforced
ForeignKeysEnforced == FALSE

\* INTEGER PRIMARY KEY: the rowid given to a new row (cursor.lastrowid)
lastrowid(table) == IF table = {} THEN 1 ELSE Max({r.id : r \in table}) + 1

Ids(table) == {r.id : r \in table}

RowById(table, k) == IF k \in Ids(table) THEN Some(CHOOSE r \in table : r.id = k) ELSE None

SeedAuthor == [id |-> 1, name |-> <<"a">>, created_at |-> TS]
SeedMagazine == [id |-> 1, name |-> <<"a">>, category |-> <<"n">>, created_at |-> TS]

Init ==
    /\ pkg \in Packages
    /\ cls \in Classes
    /\ authors = IF cls = "Author" THEN {} ELSE {SeedAuthor}
    /\ magazines = IF cls = "Magazine" THEN {} ELSE {SeedMagazine}
    /\ articles = {}
    /\ obj = None
    /\ res = [op |-> "init", err |-> "none"]
    /\ stmt = None
    /\ conn = NoConn
    /\ tx = TxIdle

\* the result record of a save: nth counts the successful saves of this
\* entity made one right after the other (capped at 2)
SaveRes(err) ==
    [op |-> "save", err |-> err,
     nth |-> IF err # "none" THEN 0
             ELSE IF res.op = "save" /\ res.err = "none" THEN 2 ELSE 1]

\* the result record of a find_by_id(k): after_save says that the call
\* directly follows a successful save of the held entity and asks for its id
FindRes(k, err, val) ==
    [op |-> "find_by_id", id |-> k, err |-> err, val |-> val,
     after_save |-> /\ res.op = "save" /\ res.err = "none"
                    /\ obj # None /\ obj[1].id = Some(k)]

\* ----------------------------------------------------------- lib.Author
\* Author(id=..., name=...): dataclass __init__ then __post_init__
lib_Author_init(id, name) ==
    /\ tx.pc = "idle" /\ pkg = "lib" /\ cls = "Author"
    /\ LET err == Author_validate_name(name) IN
        /\ obj' = IF err = "none"
                  THEN Some([id |-> id, name |-> name, created_at |-> None])
                  ELSE obj
        /\ res' = [op |-> "construct", err |-> err, name |-> name]
    /\ stmt' = None
    /\ conn' = NoConn
    /\ UNCHANGED <<pkg, cls, store, tx>>

\* variant of Author.save that does not store cursor.lastrowid in self.id
lib_Author_save_keeps_id_none(fail) ==
    /\ tx.pc = "idle" /\ pkg = "lib" /\ cls = "Author" /\ obj # None
    /\ LET self == obj[1] IN
       IF self.id = None
       THEN /\ Cardinality(authors) < MaxRows
            /\ stmt' = Some([verb |-> "INSERT", table |-> "authors", text |-> self.name])
            /\ IF fail
               THEN UNCHANGED <<authors, obj>>
               ELSE LET k == lastrowid(authors) IN
                    /\ authors' = authors \cup {[id |-> k, name |-> self.name, created_at |-> TS]}
                    /\ UNCHANGED obj
       ELSE /\ stmt' = Some([verb |-> "UPDATE", table |-> "authors", text |-> self.name])
            /\ IF fail
               THEN UNCHANGED <<authors, obj>>
               ELSE /\ authors' = {IF r.id = self.id[1] THEN [r EXCEPT !.name = self.name] ELSE r : r \in authors}
                    /\ UNCHANGED obj
    /\ res' = SaveRes(IF fail THEN "StorageError" ELSE "none")
    /\ conn' = [acquired |-> TRUE, open |-> FALSE]
    /\ UNCHANGED <<pkg, cls, magazines, articles, tx>>

\* Author.save(conn=None): INSERT when id is None, else UPDATE; commit; close
lib_Author_save(fail) ==
    /\ tx.pc = "idle" /\ pkg = "lib" /\ cls = "Author" /\ obj # None
    /\ LET self == obj[1] IN
       IF self.id = None
       THEN /\ Cardinality(authors) < MaxRows
            /\ stmt' = Some([verb |-> "INSERT", table |-> "authors", text |-> self.name])
            /\ IF fail
               THEN UNCHANGED <<authors, obj>>
               ELSE LET k == lastrowid(authors) IN
                    /\ authors' = authors \cup {[id |-> k, name |-> self.name, created_at |-> TS]}
                    /\ obj' = Some([self EXCEPT !.id = Some(k)])
       ELSE /\ stmt' = Some([verb |-> "UPDATE", table |-> "authors", text |-> self.name])
            /\ IF fail
               THEN UNCHANGED <<authors, obj>>
               ELSE /\ authors' = {IF r.id = self.id[1] THEN [r EXCEPT !.name = self.name] ELSE r : r \in authors}
                    /\ UNCHANGED obj
    /\ res' = SaveRes(IF fail THEN "StorageError" ELSE "none")
    /\ conn' = [acquired |-> TRUE, open |-> FALSE]
    /\ UNCHANGED <<pkg, cls, magazines, articles, tx>>

\* Author._row_to_author(row): cls(id=..., name=..., created_at=...)
lib_row_to_author(row) ==
    [err |-> Author_validate_name(row.name),
     val |-> [id |-> Some(row.id), name |-> row.name, created_at |-> Some(row.created_at)]]

\* Author.find_by_id(author_id)
lib_Author_find_by_id(k) ==
    /\ tx.pc = "idle" /\ pkg = "lib" /\ cls = "Author"
    /\ LET row == RowById(authors, k) IN
       res' = IF row = None THEN FindRes(k, "none", None)
              ELSE LET m == lib_row_to_author(row[1]) IN
                   IF m.err = "none" THEN FindRes(k, "none", Some(m.val))
                   ELSE FindRes(k, m.err, None)
    /\ stmt' = None
    /\ conn' = [acquired |-> TRUE, open |-> TRUE]
    /\ UNCHANGED <<pkg, cls, store, obj, tx>>

\* attribute assignment entity.name = v (entity.title = v for an Article);
\* neither package validates on assignment
set_name(v) ==
    /\ tx.pc = "idle" /\ obj # None
    /\ obj' = IF cls = "Article" THEN Some([obj[1] EXCEPT !.title = v])
                                 ELSE Some([obj[1] EXCEPT !.name = v])
    /\ res' = [op |-> "assign", err |-> "none"]
    /\ stmt' = None
    /\ conn' = NoConn
    /\ UNCHANGED <<pkg, cls, store, tx>>

\* ---------------------------------------------------- projectlib.Author
\* Author(name, id=None): no validation
projectlib_Author_init(id, name) ==
    /\ tx.pc = "idle" /\ pkg = "projectlib" /\ cls = "Author"
    /\ obj' = Some([id |-> id, name |-> name])
    /\ res' = [op |-> "construct", err |-> "none", name |-> name]
    /\ stmt' = None
    /\ conn' = NoConn
    /\ UNCHANGED <<pkg, cls, store, tx>>

\* Python truthiness of self.id in "if self.id:": None and 0 are false
truthy(id) == id # None /\ id[1] # 0

\* Author.save(): UPDATE when self.id is truthy, else INSERT; commit; close
projectlib_Author_save(fail) ==
    /\ tx.pc = "idle" /\ pkg = "projectlib" /\ cls = "Author" /\ obj # None
    /\ LET self == obj[1] IN
       IF truthy(self.id)
       THEN /\ stmt' = Some([verb |-> "UPDATE", table |-> "authors", text |-> self.name])
            /\ IF fail
               THEN UNCHANGED <<authors, obj>>
               ELSE /\ authors' = {IF r.id = self.id[1] THEN [r EXCEPT !.name = self.name] ELSE r : r \in authors}
                    /\ UNCHANGED obj
       ELSE /\ Cardinality(authors) < MaxRows
            /\ stmt' = Some([verb |-> "INSERT", table |-> "authors", text |-> self.name])
            /\ IF fail
               THEN UNCHANGED <<authors, obj>>
               ELSE LET k == lastrowid(authors) IN
                    /\ authors' = authors \cup {[id |-> k, name |-> self.name, created_at |-> TS]}
                    /\ obj' = Some([self EXCEPT !.id = Some(k)])
    /\ res' = SaveRes(IF fail THEN "StorageError" ELSE "none")
    /\ conn' = [acquired |-> TRUE, open |-> fail]
    /\ UNCHANGED <<pkg, cls, magazines, articles, tx>>

\* Author.find_by_id(author_id): cls(row["name"], row["id"]) or None
projectlib_Author_find_by_id(k) ==
    /\ tx.pc = "idle" /\ pkg = "projectlib" /\ cls = "Author"
    /\ LET row == RowById(authors, k) IN
       res' = IF row = None THEN FindRes(k, "none", None)
              ELSE FindRes(k, "none", Some([id |-> Some(row[1].id), name |-> row[1].name]))
    /\ stmt' = None
    /\ conn' = [acquired |-> TRUE, open |-> FALSE]
    /\ UNCHANGED <<pkg, cls, store, obj, tx>>

\* --------------------------------------------------------- lib.Magazine
\* Magazine(id=..., name=..., category=...): __post_init__ validates
lib_Magazine_init(id, name, category) ==
    /\ tx.pc = "idle" /\ pkg = "lib" /\ cls = "Magazine"
    /\ LET err == Magazine_validate_fields(name, category) IN
        /\ obj' = IF err = "none"
                  THEN Some([id |-> id, name |-> name, category |-> category, created_at |-> None])
                  ELSE obj
        /\ res' = [op |-> "construct", err |-> err, name |-> name]
    /\ stmt' = None
    /\ conn' = NoConn
    /\ UNCHANGED <<pkg, cls, store, tx>>

\* Magazine.save(): _create_magazine when id is None, else _update_magazine,
\* inside "with get_connection() as conn" (commit on exit, no close)
lib_Magazine_save(fail) ==
    /\ tx.pc = "idle" /\ pkg = "lib" /\ cls = "Magazine" /\ obj # None
    /\ LET self == obj[1] IN
       IF self.id = None
       THEN /\ Cardinality(magazines) < MaxRows
            /\ stmt' = Some([verb |-> "INSERT", table |-> "magazines", text |-> self.name])
            /\ IF fail
               THEN UNCHANGED <<magazines, obj>>
               ELSE LET k == lastrowid(magazines) IN
                    /\ magazines' = magazines \cup
                          {[id |-> k, name |-> self.name, category |-> self.category, created_at |-> TS]}
                    /\ obj' = Some([self EXCEPT !.id = Some(k), !.created_at = Some(TS)])
       ELSE /\ stmt' = Some([verb |-> "UPDATE", table |-> "magazines", text |-> self.name])
            /\ IF fail
               THEN UNCHANGED <<magazines, obj>>
               ELSE /\ magazines' = {IF r.id = self.id[1]
                                     THEN [r EXCEPT !.name = self.name, !.category = self.category]
                                     ELSE r : r \in magazines}
                    /\ UNCHANGED obj
    /\ res' = SaveRes(IF fail THEN "StorageError" ELSE "none")
    /\ conn' = [acquired |-> TRUE, open |-> TRUE]
    /\ UNCHANGED <<pkg, cls, authors, articles, tx>>

\* Magazine._row_to_magazine(row)
lib_row_to_magazine(row) ==
    [err |-> Magazine_validate_fields(row.name, row.category),
     val |-> [id |-> Some(row.id), name |-> row.name, category |-> row.category,
              created_at |-> Some(row.created_at)]]

\* Magazine.find_by_id(magazine_id)
lib_Magazine_find_by_id(k) ==
    /\ tx.pc = "idle" /\ pkg = "lib" /\ cls = "Magazine"
    /\ LET row == RowById(magazines, k) IN
       res' = IF row = None THEN FindRes(k, "none", None)
              ELSE LET m == lib_row_to_magazine(row[1]) IN
                   IF m.err = "none" THEN FindRes(k, "none", Some(m.val))
                   ELSE FindRes(k, m.err, None)
    /\ stmt' = None
    /\ conn' = [acquired |-> TRUE, open |-> TRUE]
    /\ UNCHANGED <<pkg, cls, store, obj, tx>>

\* -------------------------------------------------- projectlib.Magazine
\* Magazine(name, category, id=None): no validation
projectlib_Magazine_init(id, name, category) ==
    /\ tx.pc = "idle" /\ pkg = "projectlib" /\ cls = "Magazine"
    /\ obj' = Some([id |-> id, name |-> name, category |-> category])
    /\ res' = [op |-> "construct", err |-> "none", name |-> name]
    /\ stmt' = None
    /\ conn' = NoConn
    /\ UNCHANGED <<pkg, cls, store, tx>>

\* Magazine.save(): UPDATE when self.id is truthy, else INSERT; commit; close
projectlib_Magazine_save(fail) ==
    /\ tx.pc = "idle" /\ pkg = "projectlib" /\ cls = "Magazine" /\ obj # None
    /\ LET self == obj[1] IN
       IF truthy(self.id)
       THEN /\ stmt' = Some([verb |-> "UPDATE", table |-> "magazines", text |-> self.name])
            /\ IF fail
               THEN UNCHANGED <<magazines, obj>>
               ELSE /\ magazines' = {IF r.id = self.id[1]
                                     THEN [r EXCEPT !.name = self.name, !.category = self.category]
                                     ELSE r : r \in magazines}
                    /\ UNCHANGED obj
       ELSE /\ Cardinality(magazines) < MaxRows
            /\ stmt' = Some([verb |-> "INSERT", table |-> "magazines", text |-> self.name])
            /\ IF fail
               THEN UNCHANGED <<magazines, obj>>
               ELSE LET k == lastrowid(magazines) IN
                    /\ magazines' = magazines \cup
                          {[id |-> k, name |-> self.name, category |-> self.category, created_at |-> TS]}
                    /\ obj' = Some([self EXCEPT !.id = Some(k)])
    /\ res' = SaveRes(IF fail THEN "StorageError" ELSE "none")
    /\ conn' = [acquired |-> TRUE, open |-> fail]
    /\ UNCHANGED <<pkg, cls, authors, articles, tx>>

\* Magazine.find_by_id(mag_id): cls(row["name"], row["category"], row["id"])
projectlib_Magazine_find_by_id(k) ==
    /\ tx.pc = "idle" /\ pkg = "projectlib" /\ cls = "Magazine"
    /\ LET row == RowById(magazines, k) IN
       res' = IF row = None THEN FindRes(k, "none", None)
              ELSE FindRes(k, "none",
                     Some([id |-> Some(row[1].id), name |-> row[1].name, category |-> row[1].category]))
    /\ stmt' = None
    /\ conn' = [acquired |-> TRUE, open |-> FALSE]
    /\ UNCHANGED <<pkg, cls, store, obj, tx>>

\* ---------------------------------------------------------- lib.Article
\* what the storage engine answers to an article INSERT/UPDATE carrying
\* these references: an IntegrityError only when foreign keys are enforced
fk_error(author_id, magazine_id) ==
    ForeignKeysEnforced /\ (author_id \notin Ids(authors) \/ magazine_id \notin Ids(magazines))

\* Article(id=..., title=..., content=..., author_id=..., magazine_id=...)
lib_Article_init(id, title, content, author_id, magazine_id) ==
    /\ tx.pc = "idle" /\ pkg = "lib" /\ cls = "Article"
    /\ LET err == Article_validate_fields(title, Some(content), author_id, magazine_id) IN
        /\ obj' = IF err = "none"
                  THEN Some([id |-> id, title |-> title, content |-> Some(content),
                             author_id |-> author_id, magazine_id |-> magazine_id,
                             published_at |-> None])
                  ELSE obj
        /\ res' = [op |-> "construct", err |-> err, name |-> title]
    /\ stmt' = None
    /\ conn' = NoConn
    /\ UNCHANGED <<pkg, cls, store, tx>>

\* Article.save(): _create_article when id is None, else _update_article,
\* inside "with get_connection() as conn" (commit on exit, no close)
lib_Article_save(fail) ==
    /\ tx.pc = "idle" /\ pkg = "lib" /\ cls = "Article" /\ obj # None
    /\ LET self == obj[1]
           bad == fail \/ fk_error(self.author_id, self.magazine_id) IN
       /\ IF self.id = None
          THEN /\ Cardinality(articles) < MaxRows
               /\ stmt' = Some([verb |-> "INSERT", table |-> "articles", text |-> self.title,
                                author_id |-> self.author_id, magazine_id |-> self.magazine_id])
               /\ IF bad
                  THEN UNCHANGED <<articles, obj>>
                  ELSE LET k == lastrowid(articles) IN
                       /\ articles' = articles \cup
                             {[id |-> k, title |-> self.title, content |-> self.content,
                               author_id |-> self.author_id, magazine_id |-> self.magazine_id,
                               published_at |-> TS]}
                       /\ obj' = Some([self EXCEPT !.id = Some(k), !.published_at = Some(TS)])
          ELSE /\ stmt' = Some([verb |-> "UPDATE", table |-> "articles", text |-> self.title,
                                author_id |-> self.author_id, magazine_id |-> self.magazine_id])
               /\ IF bad
                  THEN UNCHANGED <<articles, obj>>
                  ELSE /\ articles' = {IF r.id = self.id[1]
                                       THEN [r EXCEPT !.title = self.title, !.content = self.content,
                                                      !.author_id = self.author_id,
                                                      !.magazine_id = self.magazine_id]
                                       ELSE r : r \in articles}
                       /\ UNCHANGED obj
       /\ res' = SaveRes(IF bad THEN "StorageError" ELSE "none")
    /\ conn' = [acquired |-> TRUE, open |-> TRUE]
    /\ UNCHANGED <<pkg, cls, authors, magazines, tx>>

\* Article._row_to_article(row)
lib_row_to_article(row) ==
    [err |-> Article_validate_fields(row.title, row.content, row.author_id, row.magazine_id),
     val |-> [id |-> Some(row.id), title |-> row.title, content |-> row.content,
              author_id |-> row.author_id, magazine_id |-> row.magazine_id,
              published_at |-> Some(row.published_at)]]

\* Article.find_by_id(article_id)
lib_Article_find_by_id(k) ==
    /\ tx.pc = "idle" /\ pkg = "lib" /\ cls = "Article"
    /\ LET row == RowById(articles, k) IN
       res' = IF row = None THEN FindRes(k, "none", None)
              ELSE LET m == lib_row_to_article(row[1]) IN
                   IF m.err = "none" THEN FindRes(k, "none", Some(m.val))
                   ELSE FindRes(k, m.err, None)
    /\ stmt' = None
    /\ conn' = [acquired |-> TRUE, open |-> TRUE]
    /\ UNCHANGED <<pkg, cls, store, obj, tx>>

\* --------------------------------------------------- projectlib.Article
\* Article(title, author_id, magazine_id, id=None): no validation, no content
projectlib_Article_init(id, title, author_id, magazine_id) ==
    /\ tx.pc = "idle" /\ pkg = "projectlib" /\ cls = "Article"
    /\ obj' = Some([id |-> id, title |-> title, author_id |-> author_id, magazine_id |-> magazine_id])
    /\ res' = [op |-> "construct", err |-> "none", name |-> title]
    /\ stmt' = None
    /\ conn' = NoConn
    /\ UNCHANGED <<pkg, cls, store, tx>>

\* Article.save(): UPDATE when self.id is truthy, else INSERT (content is
\* left NULL); commit; close
projectlib_Article_save(fail) ==
    /\ tx.pc = "idle" /\ pkg = "projectlib" /\ cls = "Article" /\ obj # None
    /\ LET self == obj[1]
           bad == fail \/ fk_error(self.author_id, self.magazine_id) IN
       /\ IF truthy(self.id)
          THEN /\ stmt' = Some([verb |-> "UPDATE", table |-> "articles", text |-> self.title,
                                author_id |-> self.author_id, magazine_id |-> self.magazine_id])
               /\ IF bad
                  THEN UNCHANGED <<articles, obj>>
                  ELSE /\ articles' = {IF r.id = self.id[1]
                                       THEN [r EXCEPT !.title = self.title,
                                                      !.author_id = self.author_id,
                                                      !.magazine_id = self.magazine_id]
                                       ELSE r : r \in articles}
                       /\ UNCHANGED obj
          ELSE /\ Cardinality(articles) < MaxRows
               /\ stmt' = Some([verb |-> "INSERT", table |-> "articles", text |-> self.title,
                                author_id |-> self.author_id, magazine_id |-> self.magazine_id])
               /\ IF bad
                  THEN UNCHANGED <<articles, obj>>
                  ELSE LET k == lastrowid(articles) IN
                       /\ articles' = articles \cup
                             {[id |-> k, title |-> self.title, content |-> None,
                               author_id |-> self.author_id, magazine_id |-> self.magazine_id,
                               published_at |-> TS]}
                       /\ obj' = Some([self EXCEPT !.id = Some(k)])
       /\ res' = SaveRes(IF bad THEN "StorageError" ELSE "none")
       /\ conn' = [acquired |-> TRUE, open |-> bad]
    /\ UNCHANGED <<pkg, cls, authors, magazines, tx>>

\* Article.find_by_id(art_id): cls(title, author_id, magazine_id, id)
projectlib_Article_find_by_id(k) ==
    /\ tx.pc = "idle" /\ pkg = "projectlib" /\ cls = "Article"
    /\ LET row == RowById(articles, k) IN
       res' = IF row = None THEN FindRes(k, "none", None)
              ELSE FindRes(k, "none",
                     Some([id |-> Some(row[1].id), title |-> row[1].title,
                           author_id |-> row[1].author_id, magazine_id |-> row[1].magazine_id]))
    /\ stmt' = None
    /\ conn' = [acquired |-> TRUE, open |-> FALSE]
    /\ UNCHANGED <<pkg, cls, store, obj, tx>>

\* ------------------------------------------------- the model operations
\* the values a caller assigns to name (title): those of the class's inputs
NameInputs ==
    IF cls = "Author" THEN AuthorNames
    ELSE IF cls = "Magazine" THEN MagNames
    ELSE IF pkg = "lib" THEN Titles ELSE ShortTitles

Next ==
    \/ \E id \in IdInputs, n \in AuthorNames : lib_Author_init(id, n)
    \/ \E f \in BOOLEAN : lib_Author_save(f)
    \/ \E k \in LookupIds : lib_Author_find_by_id(k)
    \/ \E id \in IdInputs, n \in AuthorNames : projectlib_Author_init(id, n)
    \/ \E f \in BOOLEAN : projectlib_Author_save(f)
    \/ \E k \in LookupIds : projectlib_Author_find_by_id(k)
    \/ \E id \in IdInputs, n \in MagNames, c \in Categories : lib_Magazine_init(id, n, c)
    \/ \E f \in BOOLEAN : lib_Magazine_save(f)
    \/ \E k \in LookupIds : lib_Magazine_find_by_id(k)
    \/ \E id \in IdInputs, n \in MagNames, c \in Categories : projectlib_Magazine_init(id, n, c)
    \/ \E f \in BOOLEAN : projectlib_Magazine_save(f)
    \/ \E k \in LookupIds : projectlib_Magazine_find_by_id(k)
    \/ \E id \in IdInputs, t \in Titles, c \in Contents, a \in AuthorRefs, m \in MagazineRefs :
          lib_Article_init(id, t, c, a, m)
    \/ \E f \in BOOLEAN : lib_Article_save(f)
    \/ \E k \in LookupIds : lib_Article_find_by_id(k)
    \/ \E id \in IdInputs, t \in ShortTitles, a \in AuthorRefs :
          projectlib_Article_init(id, t, a, 1)
    \/ \E f \in BOOLEAN : projectlib_Article_save(f)
    \/ \E k \in LookupIds : projectlib_Article_find_by_id(k)
    \/ \E v \in NameInputs : set_name(v)

Spec == Init /\ [][Next]_vars

\* ======================================================================
\* lib.db.transaction: transaction() and add_author_with_articles()
\* ======================================================================
\* an article specification: the dict with 'title', 'magazine_id' and an
\* optional 'content' (None: the key is absent)
ArticleSpecs ==
    [title : ShortTitles, content : {None, Some(Content)}, magazine_id : {1, 2}]

TxNames == {Empty, Space, <<"a">>, TooLong}

ArticleLists == UNION {[1..n -> ArticleSpecs] : n \in 0..MaxArticles}

\* the parameters of Article.save in lib/models/article.py: (self)
lib_Article_save_params == {"self"}

\* article_data.get('content', '')
get_content(article_data) ==
    IF article_data.content = None THEN Empty ELSE article_data.content[1]

Log(entry) == [tx EXCEPT !.log = Append(@, entry)]

InitTx ==
    /\ pkg = "lib"
    /\ cls = "Author"
    /\ authors \in {{[id |-> i, name |-> <<"a">>, created_at |-> TS] : i \in 1..n} : n \in 0..(MaxRows - 1)}
    /\ magazines = {SeedMagazine}
    /\ articles = {}
    /\ obj = None
    /\ res = [op |-> "init", err |-> "none"]
    /\ stmt = None
    /\ conn = NoConn
    /\ tx = TxIdle

\* a caller invokes add_author_with_articles(author_name, articles_data)
add_author_with_articles(author_name, articles_data) ==
    /\ tx.pc = "idle"
    /\ Cardinality(authors) < MaxRows
    /\ tx' = [pc |-> "get_connection", name |-> author_name, data |-> articles_data,
              i |-> 1, conn |-> "none", author_id |-> None,
              pend_authors |-> {}, pend_articles |-> {},
              raising |-> "none", result |-> None,
              before |-> <<authors, articles>>, log |-> <<>>]
    /\ stmt' = None
    /\ conn' = NoConn
    /\ UNCHANGED <<pkg, cls, store, obj, res>>

\* transaction(): conn = get_connection(), outside the try
tx_get_connection(fail) ==
    /\ tx.pc = "get_connection"
    /\ IF fail
       THEN /\ tx' = [tx EXCEPT !.pc = "done", !.raising = "StorageError", !.result = Some(FALSE)]
            /\ conn' = NoConn
       ELSE /\ tx' = [tx EXCEPT !.pc = "BEGIN", !.conn = "open"]
            /\ conn' = [acquired |-> TRUE, open |-> TRUE]
    /\ stmt' = None
    /\ UNCHANGED <<pkg, cls, store, obj, res>>

\* variant of transaction() that goes on to the body when BEGIN failed
tx_begin_unchecked(fail) ==
    /\ tx.pc = "BEGIN"
    /\ tx' = [Log([s |-> "BEGIN", ok |-> ~fail]) EXCEPT !.pc = "Author"]
    /\ stmt' = None
    /\ UNCHANGED <<pkg, cls, store, obj, res, conn>>

\* transaction(): conn.execute("BEGIN"), then yield conn
tx_begin(fail) ==
    /\ tx.pc = "BEGIN"
    /\ tx' = [Log([s |-> "BEGIN", ok |-> ~fail]) EXCEPT
                 !.pc = IF fail THEN "ROLLBACK" ELSE "Author",
                 !.raising = IF fail THEN "StorageError" ELSE "none"]
    /\ stmt' = None
    /\ UNCHANGED <<pkg, cls, store, obj, res, conn>>

\* body: author = Author(id=None, name=author_name)
tx_Author_init ==
    /\ tx.pc = "Author"
    /\ LET err == Author_validate_name(tx.name) IN
       tx' = [tx EXCEPT !.pc = IF err = "none" THEN "INSERT_author" ELSE "ROLLBACK",
                        !.raising = err]
    /\ stmt' = None
    /\ UNCHANGED <<pkg, cls, store, obj, res, conn>>

\* variant of the author INSERT that is committed at once (no open
\* transaction around it)
tx_insert_author_autocommit(fail) ==
    /\ tx.pc = "INSERT_author"
    /\ stmt' = Some([verb |-> "INSERT", table |-> "authors", text |-> tx.name])
    /\ IF fail
       THEN /\ tx' = [Log([s |-> "INSERT authors", ok |-> FALSE]) EXCEPT
                         !.pc = "ROLLBACK", !.raising = "StorageError"]
            /\ UNCHANGED authors
       ELSE LET k == lastrowid(authors) IN
            /\ tx' = [Log([s |-> "INSERT authors", ok |-> TRUE]) EXCEPT
                         !.pc = "articles", !.author_id = Some(k)]
            /\ authors' = authors \cup {[id |-> k, name |-> tx.name, created_at |-> TS]}
    /\ UNCHANGED <<pkg, cls, magazines, articles, obj, res, conn>>

\* body: INSERT INTO authors (name) VALUES (?) RETURNING id, created_at;
\* the row is written inside the open transaction
tx_insert_author(fail) ==
    /\ tx.pc = "INSERT_author"
    /\ stmt' = Some([verb |-> "INSERT", table |-> "authors", text |-> tx.name])
    /\ IF fail
       THEN tx' = [Log([s |-> "INSERT authors", ok |-> FALSE]) EXCEPT
                      !.pc = "ROLLBACK", !.raising = "StorageError"]
       ELSE LET k == lastrowid(authors) IN
            tx' = [Log([s |-> "INSERT authors", ok |-> TRUE]) EXCEPT
                      !.pc = "articles", !.author_id = Some(k),
                      !.pend_authors = {[id |-> k, name |-> tx.name, created_at |-> TS]}]
    /\ UNCHANGED <<pkg, cls, store, obj, res, conn>>

\* body: one turn of "for article_data in articles_data:
\*   Article(id=None, ..., author_id=author.id, ...).save(conn=conn)",
\* or the "return True" after the loop, which leaves the with block
tx_article(fail) ==
    /\ tx.pc = "articles"
    /\ IF tx.i > Len(tx.data)
       THEN /\ ~fail
            /\ tx' = [tx EXCEPT !.pc = "COMMIT"]
            /\ stmt' = None
       ELSE LET d == tx.data[tx.i]
                err == Article_validate_fields(d.title, Some(get_content(d)),
                                               tx.author_id[1], d.magazine_id) IN
            IF err # "none"
            THEN /\ ~fail
                 /\ tx' = [tx EXCEPT !.pc = "ROLLBACK", !.raising = err]
                 /\ stmt' = None
            ELSE IF "conn" \notin lib_Article_save_params
            THEN /\ ~fail
                 /\ tx' = [tx EXCEPT !.pc = "ROLLBACK", !.raising = "TypeError"]
                 /\ stmt' = None
            ELSE /\ stmt' = Some([verb |-> "INSERT", table |-> "articles", text |-> d.title,
                                  author_id |-> tx.author_id[1], magazine_id |-> d.magazine_id])
                 /\ IF fail \/ fk_error(tx.author_id[1], d.magazine_id)
                    THEN tx' = [Log([s |-> "INSERT articles", ok |-> FALSE]) EXCEPT
                                   !.pc = "ROLLBACK", !.raising = "StorageError"]
                    ELSE tx' = [Log([s |-> "INSERT articles", ok |-> TRUE]) EXCEPT
                                   !.i = @ + 1,
                                   !.pend_articles = @ \cup
                                      {[id |-> lastrowid(articles \cup tx.pend_articles),
                                        title |-> d.title, content |-> Some(get_content(d)),
                                        author_id |-> tx.author_id[1],
                                        magazine_id |-> d.magazine_id, published_at |-> TS]}]
    /\ UNCHANGED <<pkg, cls, store, obj, res, conn>>

\* variant of transaction() whose COMMIT stands outside the try: a failing
\* COMMIT goes to the finally clause without ROLLBACK
tx_commit_outside_try(fail) ==
    /\ tx.pc = "COMMIT"
    /\ IF fail
       THEN /\ tx' = [Log([s |-> "COMMIT", ok |-> FALSE]) EXCEPT
                         !.pc = "close", !.raising = "StorageError"]
            /\ UNCHANGED store
       ELSE /\ authors' = authors \cup tx.pend_authors
            /\ articles' = articles \cup tx.pend_articles
            /\ tx' = [Log([s |-> "COMMIT", ok |-> TRUE]) EXCEPT
                         !.pc = "close", !.pend_authors = {}, !.pend_articles = {}]
            /\ UNCHANGED magazines
    /\ stmt' = None
    /\ UNCHANGED <<pkg, cls, obj, res, conn>>

\* transaction(): conn.execute("COMMIT") after the body ended normally
tx_commit(fail) ==
    /\ tx.pc = "COMMIT"
    /\ IF fail
       THEN /\ tx' = [Log([s |-> "COMMIT", ok |-> FALSE]) EXCEPT
                         !.pc = "ROLLBACK", !.raising = "StorageError"]
            /\ UNCHANGED store
       ELSE /\ authors' = authors \cup tx.pend_authors
            /\ articles' = articles \cup tx.pend_articles
            /\ tx' = [Log([s |-> "COMMIT", ok |-> TRUE]) EXCEPT
                         !.pc = "close", !.pend_authors = {}, !.pend_articles = {}]
            /\ UNCHANGED magazines
    /\ stmt' = None
    /\ UNCHANGED <<pkg, cls, obj, res, conn>>

\* variant of the except branch that executes COMMIT where ROLLBACK belongs
tx_rollback_commits(fail) ==
    /\ tx.pc = "ROLLBACK"
    /\ tx' = [Log([s |-> "COMMIT", ok |-> ~fail]) EXCEPT
                 !.pc = "close",
                 !.pend_authors = IF fail THEN @ ELSE {},
                 !.pend_articles = IF fail THEN @ ELSE {},
                 !.raising = IF fail THEN "StorageError" ELSE @]
    /\ authors' = IF fail THEN authors ELSE authors \cup tx.pend_authors
    /\ articles' = IF fail THEN articles ELSE articles \cup tx.pend_articles
    /\ stmt' = None
    /\ UNCHANGED <<pkg, cls, magazines, obj, res, conn>>

\* variant of transaction() whose conn.close() is not in a finally clause: a
\* failing ROLLBACK leaves the generator before the close
tx_rollback_without_finally(fail) ==
    /\ tx.pc = "ROLLBACK"
    /\ tx' = [Log([s |-> "ROLLBACK", ok |-> ~fail]) EXCEPT
                 !.pc = IF fail THEN "done" ELSE "close",
                 !.pend_authors = IF fail THEN @ ELSE {},
                 !.pend_articles = IF fail THEN @ ELSE {},
                 !.raising = IF fail THEN "StorageError" ELSE @,
                 !.result = IF fail THEN Some(FALSE) ELSE @]
    /\ stmt' = None
    /\ UNCHANGED <<pkg, cls, store, obj, res, conn>>

\* transaction(): except Exception: conn.execute("ROLLBACK"); raise
tx_rollback(fail) ==
    /\ tx.pc = "ROLLBACK"
    /\ tx' = [Log([s |-> "ROLLBACK", ok |-> ~fail]) EXCEPT
                 !.pc = "close",
                 !.pend_authors = IF fail THEN @ ELSE {},
                 !.pend_articles = IF fail THEN @ ELSE {},
                 !.raising = IF fail THEN "StorageError" ELSE @]
    /\ stmt' = None
    /\ UNCHANGED <<pkg, cls, store, obj, res, conn>>

\* variant of add_author_with_articles without the except clause's
\* "return False": the "return True" of the body is the result
tx_close_returns_true ==
    /\ tx.pc = "close"
    /\ tx' = [Log([s |-> "close", ok |-> TRUE]) EXCEPT
                 !.pc = "done", !.conn = "closed",
                 !.pend_authors = {}, !.pend_articles = {},
                 !.result = Some(TRUE)]
    /\ conn' = [acquired |-> TRUE, open |-> FALSE]
    /\ stmt' = None
    /\ UNCHANGED <<pkg, cls, store, obj, res>>

\* transaction(): finally: conn.close() (an open transaction is discarded),
\* then add_author_with_articles returns True, or False from its except
tx_close ==
    /\ tx.pc = "close"
    /\ tx' = [Log([s |-> "close", ok |-> TRUE]) EXCEPT
                 !.pc = "done", !.conn = "closed",
                 !.pend_authors = {}, !.pend_articles = {},
                 !.result = Some(tx.raising = "none")]
    /\ conn' = [acquired |-> TRUE, open |-> FALSE]
    /\ stmt' = None
    /\ UNCHANGED <<pkg, cls, store, obj, res>>

NextTx ==
    \/ \E n \in TxNames, L \in ArticleLists : add_author_with_articles(n, L)
    \/ \E f \in BOOLEAN : tx_get_connection(f)
    \/ \E f \in BOOLEAN : tx_begin(f)
    \/ tx_Author_init
    \/ \E f \in BOOLEAN : tx_insert_author(f)
    \/ \E f \in BOOLEAN : tx_article(f)
    \/ \E f \in BOOLEAN : tx_commit(f)
    \/ \E f \in BOOLEAN : tx_rollback(f)
    \/ tx_close

SpecTx == InitTx /\ [][NextTx]_vars

\* the code runs to completion: single-threaded, synchronous, no waiting
FairSpecTx == SpecTx /\ WF_vars(NextTx)

\* ======================================================================
\* Properties of add_author_with_articles and transaction()
\* ======================================================================
IsBlank(s) == \A i \in 1..Len(s) : s[i] = " "

\* an article specification the contract calls invalid: a blank title, or a
\* magazine_id that references no magazine row
SpecInvalid(d) == IsBlank(d.title) \/ d.magazine_id \notin Ids(magazines)

Called == tx.pc # "idle"
Returned == tx.pc = "done"
NewAuthors == authors \ tx.before[1]
NewArticles == articles \ tx.before[2]
Executed(s) == \E i \in 1..Len(tx.log) : tx.log[i].s = s /\ tx.log[i].ok
Attempted(s) == \E i \in 1..Len(tx.log) : tx.log[i].s = s
NoStorageFault == tx.conn # "none" /\ \A i \in 1..Len(tx.log) : tx.log[i].ok

\* C1: all-or-nothing on failure. When the article list holds at least one
\* invalid specification, then after add_author_with_articles has returned
\* the authors and articles tables equal their contents before the call.
C1_AllOrNothing ==
    (Returned /\ \E i \in 1..Len(tx.data) : SpecInvalid(tx.data[i]))
        => <<authors, articles>> = tx.before

\* a call with an invalid specification whose author INSERT had succeeded
\* has returned
C1_Witness ==
    /\ Returned
    /\ \E i \in 1..Len(tx.data) : SpecInvalid(tx.data[i])
    /\ Executed("INSERT authors")
    /\ Executed("ROLLBACK")
    /\ <<authors, articles>> = tx.before

\* C2: success case. A call with a valid author name and n >= 1 valid
\* article specifications whose magazines exist, with no storage fault,
\* returns True and leaves exactly one new author row and n new article
\* rows, each carrying the new author's id.
C2_SuccessCase ==
    (/\ Returned
     /\ NoStorageFault
     /\ ~IsBlank(tx.name) /\ Len(tx.name) <= MaxNameLen
     /\ Len(tx.data) >= 1
     /\ \A i \in 1..Len(tx.data) :
           /\ ~SpecInvalid(tx.data[i])
           /\ tx.data[i].content # None /\ ~IsBlank(tx.data[i].content[1]))
        => /\ tx.result = Some(TRUE)
           /\ Cardinality(NewAuthors) = 1
           /\ Cardinality(NewArticles) = Len(tx.data)
           /\ \A r \in NewArticles : \E a \in NewAuthors : r.author_id = a.id

\* C3: isolation. In every state of a call, a reader on another connection
\* (who sees the committed tables) sees either none of the call's rows, or
\* the new author row together with all of the call's article rows.
C3_Isolation ==
    Called =>
        \/ NewAuthors = {} /\ NewArticles = {}
        \/ /\ Cardinality(NewAuthors) = 1
           /\ Cardinality(NewArticles) = Len(tx.data)
           /\ \A r \in NewArticles : Some(r.author_id) = tx.author_id

\* the author row is written inside the open transaction of a call that has
\* articles to add, and no reader sees it
C3_Witness ==
    /\ tx.pc = "articles"
    /\ tx.pend_authors # {}
    /\ Len(tx.data) >= 1
    /\ NewAuthors = {}

\* C4: every execution of transaction() that acquired a connection
\* eventually closes it, whichever way the body and COMMIT/ROLLBACK end.
C4_ConnectionClosed == (Called /\ tx.conn = "open") ~> (tx.conn = "closed")

\* the connection was closed after a ROLLBACK that failed
C4_Witness ==
    /\ Returned
    /\ tx.conn = "closed"
    /\ Attempted("ROLLBACK") /\ ~Executed("ROLLBACK")

\* ======================================================================
\* Properties of the entity classes (construct, assign, save, find_by_id)
\* ======================================================================
\* the table of the class the process works with
TableOf == IF cls = "Author" THEN authors
           ELSE IF cls = "Magazine" THEN magazines ELSE articles

ValidText(s) == ~IsBlank(s) /\ Len(s) <= MaxNameLen

\* the data model's validity of an entity's user-supplied fields
EntityValid(e) ==
    IF cls = "Author" THEN ValidText(e.name)
    ELSE IF cls = "Magazine" THEN ValidText(e.name) /\ ~IsBlank(e.category)
    ELSE /\ ValidText(e.title) /\ e.author_id > 0 /\ e.magazine_id > 0
         /\ (pkg = "lib" => e.content # None /\ ~IsBlank(e.content[1]))

\* e and f (entities, or an entity and a row) agree on the user-supplied fields
SameUserFields(e, f) ==
    IF cls = "Author" THEN e.name = f.name
    ELSE IF cls = "Magazine" THEN e.name = f.name /\ e.category = f.category
    ELSE /\ e.title = f.title /\ e.author_id = f.author_id /\ e.magazine_id = f.magazine_id
         /\ (pkg = "lib" => e.content = f.content)

\* C5: referential integrity. Every article row in storage has an author_id
\* that is the id of an author row and a magazine_id that is the id of a
\* magazine row.
C5_ReferentialIntegrity ==
    \A r \in articles : r.author_id \in Ids(authors) /\ r.magazine_id \in Ids(magazines)

\* C6: an invalid entity never reaches storage. No INSERT or UPDATE is issued
\* that carries a blank name/title, one longer than 255 characters, or a
\* non-positive author_id/magazine_id.
C6_NoInvalidStatement ==
    stmt # None =>
        /\ ValidText(stmt[1].text)
        /\ (stmt[1].table = "articles" => stmt[1].author_id > 0 /\ stmt[1].magazine_id > 0)

\* C7: constructing a lib Author whose name is empty or all whitespace fails
\* with a validation error, acquires no connection and issues no statement.
C7_BlankAuthorRejected ==
    (res.op = "construct" /\ pkg = "lib" /\ cls = "Author" /\ IsBlank(res.name))
        => res.err = "ValueError" /\ ~conn.acquired /\ stmt = None

\* Author(name=" ") was attempted and refused
C7_Witness ==
    /\ res.op = "construct" /\ pkg = "lib" /\ cls = "Author"
    /\ res.name = Space
    /\ res.err = "ValueError"

\* C8: round trip. After save(E) succeeded on a valid entity E,
\* find_by_id(E.id) returns an entity equal to E in the user-supplied fields.
C8_RoundTrip ==
    (res.op = "find_by_id" /\ res.after_save /\ EntityValid(obj[1]))
        => res.err = "none" /\ res.val # None /\ SameUserFields(res.val[1], obj[1])

\* C9: idempotent update. A save() that directly follows a successful save()
\* of the same entity, fields unchanged, leaves every table as it was and the
\* entity's id as it was.
C9_IdempotentSave ==
    [][(res'.op = "save" /\ res'.nth = 2)
          => store' = store /\ obj'[1].id = obj[1].id]_vars

\* a persisted entity has been saved twice in a row
C9_Witness ==
    /\ res.op = "save" /\ res.nth = 2
    /\ obj[1].id # None /\ obj[1].id[1] \in Ids(TableOf)

\* C10: identity lifecycle. A successful save() on an entity whose id is
\* absent inserts exactly one row and assigns an id; on an entity whose id is
\* present it inserts no row, overwrites the fields of the row with that id
\* and leaves the entity's id unchanged.
C10_IdentityLifecycle ==
    [][(res'.op = "save" /\ res'.err = "none")
          => IF obj[1].id = None
             THEN /\ Cardinality(TableOf') = Cardinality(TableOf) + 1
                  /\ obj'[1].id # None
             ELSE /\ Ids(TableOf') = Ids(TableOf)
                  /\ obj'[1].id = obj[1].id
                  /\ \A r \in TableOf' : Some(r.id) = obj[1].id => SameUserFields(r, obj[1])]_vars

\* ======================================================================
\* Finders and relationship queries
\* ======================================================================
\* text the stored rows carry and text the callers search for
StoredNames == {Space, <<"a">>, <<"a", "b">>}
SearchTerms == {Empty, <<"a">>, <<"a", "b">>, <<"A">>}
StoredCategories == {<<"n">>, <<"n", "m">>}
CategoryTerms == {Empty, <<"n">>, <<"n", "m">>, <<"N">>}
TitleTerms == {<<"a">>, <<"a", "b">>}
NewNames == {<<"a">>, <<"a", "b">>}
Limits == {None, Some(0), Some(1)}
MinArticles == {None, Some(1)}

Min(S) == CHOOSE x \in S : \A y \in S : x <= y

\* the rows of a table in rowid order: the order of a scan with no ORDER BY
RECURSIVE SortById(_)
SortById(T) ==
    IF T = {} THEN <<>>
    ELSE LET r == CHOOSE x \in T : \A y \in T : x.id <= y.id IN
         <<r>> \o SortById(T \ {r})

\* ORDER BY published_at DESC: rows with a later stamp first, rows with the
\* same stamp in the order the scan delivered them
Stamp(ts) == IF ts = TS THEN 1 ELSE 0

RECURSIVE InsertByStamp(_, _)
InsertByStamp(r, s) ==
    IF s = <<>> THEN <<r>>
    ELSE IF Stamp(r.published_at) > Stamp(Head(s).published_at) THEN <<r>> \o s
    ELSE <<Head(s)>> \o InsertByStamp(r, Tail(s))

RECURSIVE OrderByPublishedDesc(_)
OrderByPublishedDesc(s) ==
    IF s = <<>> THEN <<>>
    ELSE InsertByStamp(s[Len(s)], OrderByPublishedDesc(SubSeq(s, 1, Len(s) - 1)))

\* ASCII case folding of the LIKE operator
lower(c) == IF c = "A" THEN "a" ELSE IF c = "N" THEN "n" ELSE c

\* text LIKE pattern: % matches any run of characters, _ any one character,
\* every other character matches itself without regard to ASCII case
RECURSIVE Like(_, _)
Like(p, t) ==
    IF p = <<>> THEN t = <<>>
    ELSE IF Head(p) = "%" THEN Like(Tail(p), t) \/ (t # <<>> /\ Like(p, Tail(t)))
    ELSE /\ t # <<>>
         /\ (Head(p) = "_" \/ lower(Head(p)) = lower(Head(t)))
         /\ Like(Tail(p), Tail(t))

\* param = name if exact else f"%{name}%"
like_param(name) == <<"%">> \o name \o <<"%">>

\* WHERE column = ? (exact) or WHERE column LIKE ? (substring)
Matches(text, name, exact) == IF exact THEN text = name ELSE Like(like_param(name), text)

\* LIMIT n on a result: the first n rows (all rows when n is negative)
sql_limit(rows, n) == IF n < 0 \/ n >= Len(rows) THEN rows ELSE SubSeq(rows, 1, n)

\* SELECT DISTINCT: each row once, at its first position
RECURSIVE Distinct(_)
Distinct(s) ==
    IF s = <<>> THEN <<>>
    ELSE LET d == Distinct(SubSeq(s, 1, Len(s) - 1)) IN
         IF \E i \in 1..Len(d) : d[i] = s[Len(s)] THEN d ELSE Append(d, s[Len(s)])

RECURSIVE Flatten(_)
Flatten(ss) == IF ss = <<>> THEN <<>> ELSE Head(ss) \o Flatten(Tail(ss))

\* [to_entity(row) for row in rows]: the first row whose construction raises
\* ends the comprehension with that exception
MapRows(rows, to_entity(_)) ==
    LET ms == [i \in 1..Len(rows) |-> to_entity(rows[i])]
        bad == {i \in 1..Len(rows) : ms[i].err # "none"} IN
    IF bad = {} THEN [err |-> "none", val |-> [i \in 1..Len(rows) |-> ms[i].val]]
    ELSE [err |-> ms[Min(bad)].err, val |-> <<>>]

\* the result record of a finder that returns a list: arg and opt are the
\* call's arguments, rows the number of rows the statement selected
ListRes(op, of, arg, opt, rows, m) ==
    [op |-> op, kind |-> "list", of |-> of, arg |-> arg, opt |-> opt,
     rows |-> Len(rows), err |-> m.err, val |-> m.val]

\* the result record of a finder that returns one entity or None
OneRes(op, of, arg, rows, val) ==
    [op |-> op, kind |-> "optional", of |-> of, arg |-> arg, opt |-> None,
     rows |-> Len(rows), err |-> "none", val |-> val]

\* a read-only call of package p by the process that works with class c:
\* it acquires a connection and leaves it open or closed
Query(p, c, r, open) ==
    /\ tx.pc = "idle" /\ pkg = p /\ cls = c
    /\ res' = r
    /\ stmt' = None
    /\ conn' = [acquired |-> TRUE, open |-> open]
    /\ UNCHANGED <<pkg, cls, store, obj, tx>>

\* ------------------------------------------------ finders by name/category
\* lib Author.find_by_name(name, exact=False)
lib_Author_find_by_name(name, exact) ==
    LET rows == SelectSeq(SortById(authors), LAMBDA r : Matches(r.name, name, exact)) IN
    Query("lib", "Author",
          ListRes("find_by_name", "authors", name, Some(exact), rows,
                  MapRows(rows, lib_row_to_author)),
          TRUE)

\* variant of projectlib Author.find_by_name that builds the entity from
\* fetchone() without the "if row" test: None is not subscriptable
projectlib_Author_find_by_name_unchecked(name) ==
    LET rows == SelectSeq(SortById(authors), LAMBDA r : r.name = name) IN
    Query("projectlib", "Author",
          IF rows = <<>>
          THEN [OneRes("find_by_name", "authors", name, rows, None) EXCEPT !.err = "TypeError"]
          ELSE OneRes("find_by_name", "authors", name, rows,
                      Some([id |-> Some(rows[1].id), name |-> rows[1].name])),
          FALSE)

\* projectlib Author.find_by_name(name): equality, fetchone(), entity or None
projectlib_Author_find_by_name(name) ==
    LET rows == SelectSeq(SortById(authors), LAMBDA r : r.name = name) IN
    Query("projectlib", "Author",
          OneRes("find_by_name", "authors", name, rows,
                 IF rows = <<>> THEN None
                 ELSE Some([id |-> Some(rows[1].id), name |-> rows[1].name])),
          FALSE)

\* lib Magazine.find_by_name(name, exact=False)
lib_Magazine_find_by_name(name, exact) ==
    LET rows == SelectSeq(SortById(magazines), LAMBDA r : Matches(r.name, name, exact)) IN
    Query("lib", "Magazine",
          ListRes("find_by_name", "magazines", name, Some(exact), rows,
                  MapRows(rows, lib_row_to_magazine)),
          TRUE)

\* lib Magazine.find_by_category(category, exact=False)
lib_Magazine_find_by_category(category, exact) ==
    LET rows == SelectSeq(SortById(magazines), LAMBDA r : Matches(r.category, category, exact)) IN
    Query("lib", "Magazine",
          ListRes("find_by_category", "magazines", category, Some(exact), rows,
                  MapRows(rows, lib_row_to_magazine)),
          TRUE)

\* projectlib Magazine.find_by_name(name): equality, fetchone(), entity or None
projectlib_Magazine_find_by_name(name) ==
    LET rows == SelectSeq(SortById(magazines), LAMBDA r : r.name = name) IN
    Query("projectlib", "Magazine",
          OneRes("find_by_name", "magazines", name, rows,
                 IF rows = <<>> THEN None
                 ELSE Some([id |-> Some(rows[1].id), name |-> rows[1].name,
                            category |-> rows[1].category])),
          FALSE)

\* projectlib Magazine.find_by_category(category): equality, fetchall()
projectlib_Magazine_find_by_category(category) ==
    LET rows == SelectSeq(SortById(magazines), LAMBDA r : r.category = category) IN
    Query("projectlib", "Magazine",
          ListRes("find_by_category", "magazines", category, None, rows,
                  [err |-> "none",
                   val |-> [i \in 1..Len(rows) |->
                              [id |-> Some(rows[i].id), name |-> rows[i].name,
                               category |-> rows[i].category]]]),
          FALSE)

\* ------------------------------------------------------- Article finders
\* lib Article.find_by_title(title, exact=False)
lib_Article_find_by_title(title, exact) ==
    LET rows == SelectSeq(SortById(articles), LAMBDA r : Matches(r.title, title, exact)) IN
    Query("lib", "Article",
          ListRes("find_by_title", "articles", title, Some(exact), rows,
                  MapRows(rows, lib_row_to_article)),
          TRUE)

\* projectlib Article.find_by_title(title): equality, fetchall()
projectlib_Article_find_by_title(title) ==
    LET rows == SelectSeq(SortById(articles), LAMBDA r : r.title = title) IN
    Query("projectlib", "Article",
          ListRes("find_by_title", "articles", title, None, rows,
                  [err |-> "none",
                   val |-> [i \in 1..Len(rows) |->
                              [id |-> Some(rows[i].id), title |-> rows[i].title,
                               author_id |-> rows[i].author_id,
                               magazine_id |-> rows[i].magazine_id]]]),
          FALSE)

\* the rows of "SELECT * FROM articles WHERE author_id = ?" + (" LIMIT ?" if
\* limit else ""): the LIMIT clause is added when limit is truthy
lib_select_by_author(author_id, limit) ==
    LET all == SelectSeq(SortById(articles), LAMBDA r : r.author_id = author_id) IN
    IF truthy(limit) THEN sql_limit(all, limit[1]) ELSE all

\* lib Article.find_by_author(author_id, limit=None)
lib_Article_find_by_author(author_id, limit) ==
    LET rows == lib_select_by_author(author_id, limit) IN
    Query("lib", "Article",
          ListRes("find_by_author", "articles", author_id, limit, rows,
                  MapRows(rows, lib_row_to_article)),
          TRUE)

\* the rows of "SELECT * FROM articles WHERE magazine_id = ?" + (" LIMIT ?" if
\* limit else "")
lib_select_by_magazine(magazine_id, limit) ==
    LET all == SelectSeq(SortById(articles), LAMBDA r : r.magazine_id = magazine_id) IN
    IF truthy(limit) THEN sql_limit(all, limit[1]) ELSE all

\* lib Article.find_by_magazine(magazine_id, limit=None)
lib_Article_find_by_magazine(magazine_id, limit) ==
    LET rows == lib_select_by_magazine(magazine_id, limit) IN
    Query("lib", "Article",
          ListRes("find_by_magazine", "articles", magazine_id, limit, rows,
                  MapRows(rows, lib_row_to_article)),
          TRUE)

\* projectlib Article.find_by_author(author): WHERE author_id = author.id
projectlib_Article_find_by_author(author_id) ==
    LET rows == SelectSeq(SortById(articles), LAMBDA r : r.author_id = author_id) IN
    Query("projectlib", "Article",
          ListRes("find_by_author", "articles", author_id, None, rows,
                  [err |-> "none",
                   val |-> [i \in 1..Len(rows) |->
                              [id |-> Some(rows[i].id), title |-> rows[i].title,
                               author_id |-> rows[i].author_id,
                               magazine_id |-> rows[i].magazine_id]]]),
          FALSE)

\* projectlib Article.find_by_magazine(magazine): WHERE magazine_id = magazine.id
projectlib_Article_find_by_magazine(magazine_id) ==
    LET rows == SelectSeq(SortById(articles), LAMBDA r : r.magazine_id = magazine_id) IN
    Query("projectlib", "Article",
          ListRes("find_by_magazine", "articles", magazine_id, None, rows,
                  [err |-> "none",
                   val |-> [i \in 1..Len(rows) |->
                              [id |-> Some(rows[i].id), title |-> rows[i].title,
                               author_id |-> rows[i].author_id,
                               magazine_id |-> rows[i].magazine_id]]]),
          FALSE)

\* ---------------------------------------------------- relationship queries
\* lib Author.articles(): WHERE author_id = self.id ORDER BY published_at DESC
lib_Author_articles(self_id) ==
    LET rows == OrderByPublishedDesc(
                    SelectSeq(SortById(articles), LAMBDA r : r.author_id = self_id)) IN
    Query("lib", "Article",
          ListRes("Author.articles", "articles", self_id, None, rows,
                  MapRows(rows, lib_row_to_article)),
          TRUE)

\* variant of projectlib Author.articles() that passes magazine_id and
\* author_id to Article(...) in the other order
projectlib_Author_articles_swapped(self_id) ==
    LET rows == SelectSeq(SortById(articles), LAMBDA r : r.author_id = self_id) IN
    Query("projectlib", "Article",
          ListRes("Author.articles", "articles", self_id, None, rows,
                  [err |-> "none",
                   val |-> [i \in 1..Len(rows) |->
                              [id |-> Some(rows[i].id), title |-> rows[i].title,
                               author_id |-> rows[i].magazine_id,
                               magazine_id |-> rows[i].author_id]]]),
          FALSE)

\* projectlib Author.articles(): WHERE author_id = self.id
projectlib_Author_articles(self_id) ==
    LET rows == SelectSeq(SortById(articles), LAMBDA r : r.author_id = self_id) IN
    Query("projectlib", "Article",
          ListRes("Author.articles", "articles", self_id, None, rows,
                  [err |-> "none",
                   val |-> [i \in 1..Len(rows) |->
                              [id |-> Some(rows[i].id), title |-> rows[i].title,
                               author_id |-> rows[i].author_id,
                               magazine_id |-> rows[i].magazine_id]]]),
          FALSE)

\* lib Magazine.articles(): WHERE magazine_id = self.id ORDER BY published_at DESC
lib_Magazine_articles(self_id) ==
    LET rows == OrderByPublishedDesc(
                    SelectSeq(SortById(articles), LAMBDA r : r.magazine_id = self_id)) IN
    Query("lib", "Article",
          ListRes("Magazine.articles", "articles", self_id, None, rows,
                  MapRows(rows, lib_row_to_article)),
          TRUE)

\* projectlib Magazine.articles(): WHERE magazine_id = self.id
projectlib_Magazine_articles(self_id) ==
    LET rows == SelectSeq(SortById(articles), LAMBDA r : r.magazine_id = self_id) IN
    Query("projectlib", "Article",
          ListRes("Magazine.articles", "articles", self_id, None, rows,
                  [err |-> "none",
                   val |-> [i \in 1..Len(rows) |->
                              [id |-> Some(rows[i].id), title |-> rows[i].title,
                               author_id |-> rows[i].author_id,
                               magazine_id |-> rows[i].magazine_id]]]),
          FALSE)

\* authors a JOIN articles ar ON a.id = ar.author_id WHERE ar.magazine_id = ?:
\* one author row for every article of the magazine whose author exists
join_authors_of_magazine(magazine_id) ==
    LET AR == SortById(articles)
        A == SortById(authors) IN
    Flatten([j \in 1..Len(AR) |->
               IF AR[j].magazine_id = magazine_id
               THEN SelectSeq(A, LAMBDA a : a.id = AR[j].author_id)
               ELSE <<>>])

\* variant of lib Magazine.contributors() whose SELECT has no DISTINCT
lib_Magazine_contributors_all(self_id) ==
    LET rows == join_authors_of_magazine(self_id) IN
    Query("lib", "Article",
          ListRes("contributors", "authors", self_id, None, rows,
                  MapRows(rows, lib_row_to_author)),
          TRUE)

\* lib Magazine.contributors(): SELECT DISTINCT a.* over the join
lib_Magazine_contributors(self_id) ==
    LET rows == Distinct(join_authors_of_magazine(self_id)) IN
    Query("lib", "Article",
          ListRes("contributors", "authors", self_id, None, rows,
                  MapRows(rows, lib_row_to_author)),
          TRUE)

\* projectlib Magazine.contributors(): SELECT DISTINCT a.* over the join
projectlib_Magazine_contributors(self_id) ==
    LET rows == Distinct(join_authors_of_magazine(self_id)) IN
    Query("projectlib", "Article",
          ListRes("contributors", "authors", self_id, None, rows,
                  [err |-> "none",
                   val |-> [i \in 1..Len(rows) |->
                              [id |-> Some(rows[i].id), name |-> rows[i].name]]]),
          FALSE)

\* COUNT(*) of the articles of one author in one magazine
article_count(author_id, magazine_id) ==
    Cardinality({r \in articles : r.author_id = author_id /\ r.magazine_id = magazine_id})

\* lib Magazine.contributing_authors(min_articles=2): the authors joined to
\* the groups "GROUP BY author_id HAVING article_count >= ?"
lib_Magazine_contributing_authors(self_id, min_articles) ==
    LET n == IF min_articles = None THEN DefaultMinArticles ELSE min_articles[1]
        rows == SelectSeq(SortById(authors),
                          LAMBDA a : /\ article_count(a.id, self_id) >= 1
                                     /\ article_count(a.id, self_id) >= n) IN
    Query("lib", "Article",
          ListRes("contributing_authors", "authors", self_id, min_articles, rows,
                  MapRows(rows, lib_row_to_author)),
          TRUE)

\* projectlib Magazine.contributing_authors(): GROUP BY a.id HAVING cnt > 2
projectlib_Magazine_contributing_authors(self_id) ==
    LET rows == SelectSeq(SortById(authors),
                          LAMBDA a : /\ article_count(a.id, self_id) >= 1
                                     /\ article_count(a.id, self_id) > HavingCount) IN
    Query("projectlib", "Article",
          ListRes("contributing_authors", "authors", self_id, None, rows,
                  [err |-> "none",
                   val |-> [i \in 1..Len(rows) |->
                              [id |-> Some(rows[i].id), name |-> rows[i].name]]]),
          FALSE)

\* magazines m JOIN articles a ON m.id = a.magazine_id WHERE a.author_id = ?,
\* projected on m.category
join_categories_of_author(author_id) ==
    LET AR == SortById(articles)
        M == SortById(magazines) IN
    Flatten([j \in 1..Len(AR) |->
               IF AR[j].author_id = author_id
               THEN LET ms == SelectSeq(M, LAMBDA m : m.id = AR[j].magazine_id) IN
                    [i \in 1..Len(ms) |-> ms[i].category]
               ELSE <<>>])

\* variant of Author.topic_areas() whose SELECT has no DISTINCT
lib_Author_topic_areas_all(self_id) ==
    LET rows == join_categories_of_author(self_id) IN
    Query("lib", "Article",
          ListRes("topic_areas", "categories", self_id, None, rows,
                  [err |-> "none", val |-> rows]),
          TRUE)

\* lib Author.topic_areas(): SELECT DISTINCT m.category; [row['category'] ...]
lib_Author_topic_areas(self_id) ==
    LET rows == Distinct(join_categories_of_author(self_id)) IN
    Query("lib", "Article",
          ListRes("topic_areas", "categories", self_id, None, rows,
                  [err |-> "none", val |-> rows]),
          TRUE)

\* projectlib Author.topic_areas(): SELECT DISTINCT m.category
projectlib_Author_topic_areas(self_id) ==
    LET rows == Distinct(join_categories_of_author(self_id)) IN
    Query("projectlib", "Article",
          ListRes("topic_areas", "categories", self_id, None, rows,
                  [err |-> "none", val |-> rows]),
          FALSE)

\* ------------------------------------------------------------ add_article
\* the result record of Author.add_article
AddRes(self_id, magazine_id, title, content, err, val) ==
    [op |-> "add_article", kind |-> "one", of |-> "articles", arg |-> self_id,
     opt |-> content, magazine_id |-> magazine_id, title |-> title,
     rows |-> 0, err |-> err, val |-> val]

\* lib Author.add_article(magazine, title, content=""): Article(id=None, ...)
\* is constructed (and validated), then article.save() inserts it
lib_Author_add_article(self_id, magazine_id, title, content, fail) ==
    /\ tx.pc = "idle" /\ pkg = "lib" /\ cls = "Article"
    /\ LET c == IF content = None THEN Empty ELSE content[1]
           err == Article_validate_fields(title, Some(c), self_id, magazine_id)
           bad == fail \/ fk_error(self_id, magazine_id)
           k == lastrowid(articles) IN
       IF err # "none"
       THEN /\ ~fail
            /\ res' = AddRes(self_id, magazine_id, title, content, err, None)
            /\ stmt' = None
            /\ conn' = NoConn
            /\ UNCHANGED articles
       ELSE /\ Cardinality(articles) < MaxRows
            /\ stmt' = Some([verb |-> "INSERT", table |-> "articles", text |-> title,
                             author_id |-> self_id, magazine_id |-> magazine_id])
            /\ conn' = [acquired |-> TRUE, open |-> TRUE]
            /\ IF bad
               THEN /\ res' = AddRes(self_id, magazine_id, title, content, "StorageError", None)
                    /\ UNCHANGED articles
               ELSE /\ articles' = articles \cup
                          {[id |-> k, title |-> title, content |-> Some(c),
                            author_id |-> self_id, magazine_id |-> magazine_id,
                            published_at |-> TS]}
                    /\ res' = AddRes(self_id, magazine_id, title, content, "none",
                                     Some([id |-> Some(k), title |-> title, content |-> Some(c),
                                           author_id |-> self_id, magazine_id |-> magazine_id,
                                           published_at |-> Some(TS)]))
    /\ UNCHANGED <<pkg, cls, authors, magazines, obj, tx>>

\* projectlib Author.add_article(magazine, title): Article(title, self.id,
\* magazine.id) is constructed, then art.save() inserts it
projectlib_Author_add_article(self_id, magazine_id, title, fail) ==
    /\ tx.pc = "idle" /\ pkg = "projectlib" /\ cls = "Article"
    /\ Cardinality(articles) < MaxRows
    /\ LET bad == fail \/ fk_error(self_id, magazine_id)
           k == lastrowid(articles) IN
       /\ stmt' = Some([verb |-> "INSERT", table |-> "articles", text |-> title,
                        author_id |-> self_id, magazine_id |-> magazine_id])
       /\ conn' = [acquired |-> TRUE, open |-> bad]
       /\ IF bad
          THEN /\ res' = AddRes(self_id, magazine_id, title, None, "StorageError", None)
               /\ UNCHANGED articles
          ELSE /\ articles' = articles \cup
                     {[id |-> k, title |-> title, content |-> None,
                       author_id |-> self_id, magazine_id |-> magazine_id,
                       published_at |-> TS]}
               /\ res' = AddRes(self_id, magazine_id, title, None, "none",
                                Some([id |-> Some(k), title |-> title,
                                      author_id |-> self_id, magazine_id |-> magazine_id]))
    /\ UNCHANGED <<pkg, cls, authors, magazines, obj, tx>>

\* ------------------------------------------- the stores the queries run on
QAuthorIds == {1, 2}
QMagazineIds == {1, 2}

\* two authors and two magazines, as a seeding script leaves them; the
\* magazines share a category or not
QAuthors == {SeedAuthor, [id |-> 2, name |-> <<"b">>, created_at |-> TS]}
QMagazineSets ==
    {{SeedMagazine, [id |-> 2, name |-> <<"b">>, category |-> c, created_at |-> TS]} :
        c \in {<<"n">>, <<"m">>}}

\* the tables that saves can have left: rows 1..n; a name may be blank
\* (entity.name assigned after construction, or saved by projectlib)
AuthorStores ==
    UNION {{{[id |-> i, name |-> f[i], created_at |-> TS] : i \in 1..n} :
              f \in [1..n -> StoredNames]} : n \in 0..MaxRows}

MagazineStores ==
    UNION {{{[id |-> i, name |-> f[i][1], category |-> f[i][2], created_at |-> TS] : i \in 1..n} :
              f \in [1..n -> NewNames \X StoredCategories]} : n \in 0..MaxRows}

\* the title of the i-th stored article
StoredTitle(i) == IF i = 1 THEN <<"a">> ELSE <<"a", "b">>

\* article rows written through lib carry content, those written through
\* projectlib (and by its seeding script) have content NULL
ArticleStores ==
    UNION {{{[id |-> i, title |-> StoredTitle(i), content |-> c, author_id |-> f[i][1],
              magazine_id |-> f[i][2], published_at |-> TS] : i \in 1..n} :
              f \in [1..n -> QAuthorIds \X QMagazineIds],
              c \in {None, Some(Content)}} : n \in 0..MaxRows}

InitQ ==
    /\ pkg \in Packages
    /\ cls \in Classes
    /\ authors \in (IF cls = "Author" THEN AuthorStores ELSE {QAuthors})
    /\ magazines \in (IF cls = "Magazine" THEN MagazineStores ELSE QMagazineSets)
    /\ articles \in (IF cls = "Article" THEN ArticleStores ELSE {{}})
    /\ obj = None
    /\ res = [op |-> "init", err |-> "none"]
    /\ stmt = None
    /\ conn = NoConn
    /\ tx = TxIdle

NextQ ==
    \/ \E n \in NewNames : lib_Author_init(None, n)
    \/ \E f \in BOOLEAN : lib_Author_save(f)
    \/ \E k \in LookupIds : lib_Author_find_by_id(k)
    \/ \E n \in SearchTerms, e \in BOOLEAN : lib_Author_find_by_name(n, e)
    \/ \E n \in NewNames : projectlib_Author_init(None, n)
    \/ \E f \in BOOLEAN : projectlib_Author_save(f)
    \/ \E k \in LookupIds : projectlib_Author_find_by_id(k)
    \/ \E n \in SearchTerms : projectlib_Author_find_by_name(n)
    \/ \E n \in NewNames : lib_Magazine_init(None, n, <<"n">>)
    \/ \E f \in BOOLEAN : lib_Magazine_save(f)
    \/ \E k \in LookupIds : lib_Magazine_find_by_id(k)
    \/ \E n \in SearchTerms, e \in BOOLEAN : lib_Magazine_find_by_name(n, e)
    \/ \E c \in CategoryTerms, e \in BOOLEAN : lib_Magazine_find_by_category(c, e)
    \/ \E n \in NewNames : projectlib_Magazine_init(None, n, <<"n">>)
    \/ \E f \in BOOLEAN : projectlib_Magazine_save(f)
    \/ \E k \in LookupIds : projectlib_Magazine_find_by_id(k)
    \/ \E n \in SearchTerms : projectlib_Magazine_find_by_name(n)
    \/ \E c \in CategoryTerms : projectlib_Magazine_find_by_category(c)
    \/ \E k \in LookupIds : lib_Article_find_by_id(k)
    \/ \E t \in TitleTerms, e \in BOOLEAN : lib_Article_find_by_title(t, e)
    \/ \E a \in QAuthorIds, l \in Limits : lib_Article_find_by_author(a, l)
    \/ \E m \in QMagazineIds, l \in Limits : lib_Article_find_by_magazine(m, l)
    \/ \E a \in QAuthorIds : lib_Author_articles(a)
    \/ \E m \in QMagazineIds : lib_Magazine_articles(m)
    \/ \E m \in QMagazineIds : lib_Magazine_contributors(m)
    \/ \E m \in QMagazineIds, n \in MinArticles : lib_Magazine_contributing_authors(m, n)
    \/ \E a \in QAuthorIds : lib_Author_topic_areas(a)
    \/ \E a \in QAuthorIds, m \in QMagazineIds, c \in {None, Some(Content)}, f \in BOOLEAN :
          lib_Author_add_article(a, m, <<"a">>, c, f)
    \/ \E k \in LookupIds : projectlib_Article_find_by_id(k)
    \/ \E t \in TitleTerms : projectlib_Article_find_by_title(t)
    \/ \E a \in QAuthorIds : projectlib_Article_find_by_author(a)
    \/ \E m \in QMagazineIds : projectlib_Article_find_by_magazine(m)
    \/ \E a \in QAuthorIds : projectlib_Author_articles(a)
    \/ \E m \in QMagazineIds : projectlib_Magazine_articles(m)
    \/ \E m \in QMagazineIds : projectlib_Magazine_contributors(m)
    \/ \E m \in QMagazineIds : projectlib_Magazine_contributing_authors(m)
    \/ \E a \in QAuthorIds : projectlib_Author_topic_areas(a)
    \/ \E a \in QAuthorIds, m \in QMagazineIds, f \in BOOLEAN :
          projectlib_Author_add_article(a, m, <<"a">>, f)

SpecQ == InitQ /\ [][NextQ]_vars

\* ======================================================================
\* Properties of the finders and relationship queries
\* ======================================================================
IsSubstring(s, t) ==
    \E i \in 0..(Len(t) - Len(s)) : SubSeq(t, i + 1, i + Len(s)) = s

TextFinders == {"find_by_name", "find_by_category", "find_by_title"}

\* the entities a result holds
Entities(r) == {r.val[i] : i \in 1..Len(r.val)}

\* C11: substring search is a superset of exact search. When an exact search
\* for t has returned and the same finder is then called with exact=False
\* and a term s that is a substring of t, every entity of the exact result
\* is in the substring result.
C11_SubstringSuperset ==
    [][(/\ res.op \in TextFinders /\ res.opt = Some(TRUE) /\ res.err = "none"
        /\ res'.op = res.op /\ res'.opt = Some(FALSE)
        /\ IsSubstring(res'.arg, res.arg))
          => Entities(res) \subseteq Entities(res')]_vars

\* what the same finder returns when it is called without a limit
Unlimited(r) ==
    MapRows(IF r.op = "find_by_author" THEN lib_select_by_author(r.arg, None)
                                       ELSE lib_select_by_magazine(r.arg, None),
            lib_row_to_article)

\* C12: limit truncates. Article.find_by_author(id, limit=n) and
\* Article.find_by_magazine(id, limit=n) with n >= 0 return at most n
\* entities, and these are a prefix of what the call without a limit returns.
C12_LimitTruncates ==
    (res.op \in {"find_by_author", "find_by_magazine"} /\ res.opt # None /\ res.err = "none")
        => /\ Len(res.val) <= res.opt[1]
           /\ Unlimited(res).err = "none"
           /\ res.val = SubSeq(Unlimited(res).val, 1, Len(res.val))

\* the lookups the contract calls multi-entity lookups
MultiLookups ==
    {"find_by_name", "find_by_title", "find_by_category", "find_by_author", "find_by_magazine"}

\* find_by_id was called with an id that no row of the class's table has
NoRowById == res.op = "find_by_id" /\ res.id \notin Ids(TableOf)

\* a lookup by name, title, category or reference selected no row
NoRowMatched == res.op \in MultiLookups /\ res.rows = 0

\* C13 as stated: find_by_id for an id with no row returns None without
\* raising, and find_by_name, find_by_title, find_by_category, find_by_author
\* and find_by_magazine with no matching row return an empty sequence
\* without raising.
C13_NotFoundAsStated ==
    /\ NoRowById => res.err = "none" /\ res.val = None
    /\ NoRowMatched => res.err = "none" /\ res.kind = "list" /\ res.val = <<>>

\* C13: not-found is not an error. A lookup for one entity (find_by_id in
\* both packages, find_by_name in projectlib) with no matching row returns
\* None without raising, and a lookup for a sequence (find_by_name in lib,
\* find_by_title, find_by_category, find_by_author, find_by_magazine) with no
\* matching row returns an empty sequence without raising.
C13_NotFound ==
    /\ NoRowById => res.err = "none" /\ res.val = None
    /\ NoRowMatched =>
          /\ res.err = "none"
          /\ IF pkg = "projectlib" /\ res.op = "find_by_name"
             THEN res.kind = "optional" /\ res.val = None
             ELSE res.kind = "list" /\ res.val = <<>>

\* a lookup on a table that holds rows matched none of them
C13_Witness ==
    /\ NoRowMatched
    /\ res.err = "none"
    /\ (IF res.of = "authors" THEN authors
        ELSE IF res.of = "magazines" THEN magazines ELSE articles) # {}

\* r is the result of a finder or of a relationship query
IsFinder(r) == r.op \notin {"init", "construct", "save", "assign", "add_article"}

\* the table a finder's entities come from
TableNameOf(r) ==
    IF r.op # "find_by_id" THEN r.of
    ELSE IF cls = "Author" THEN "authors"
    ELSE IF cls = "Magazine" THEN "magazines" ELSE "articles"

\* r and q are results of the same finder called with the same arguments
SameCall(r, q) ==
    /\ r.op = q.op
    /\ IF r.op = "find_by_id" THEN r.id = q.id ELSE r.arg = q.arg /\ r.opt = q.opt

\* C14: mapping is pure and deterministic. When two finder calls follow one
\* another on an unchanged store and both return an entity of the same row
\* of the same table, the two entities are equal field for field; and when
\* the second call is the first one repeated, it returns an equal result.
C14_MappingDeterministic ==
    [][(IsFinder(res) /\ IsFinder(res') /\ store' = store)
          => /\ (TableNameOf(res) = TableNameOf(res') /\ TableNameOf(res) # "categories")
                   => \A e \in Entities(res), f \in Entities(res') : e.id = f.id => e = f
             /\ SameCall(res, res') => res'.val = res.val /\ res'.err = res.err]_vars

\* Author.articles() has returned at least two stored articles
C14_Witness ==
    /\ res.op = "Author.articles"
    /\ res.err = "none"
    /\ Len(res.val) >= 2
    /\ \A e \in Entities(res) : e.id[1] \in Ids(articles)

\* the ids of the entities a result holds
ResultIds(r) == {e.id[1] : e \in Entities(r)}

\* C15: Magazine.contributors() returns exactly the authors that have at
\* least one article in the magazine, each of them once and carrying the
\* name of its row.
C15_Contributors ==
    res.op = "contributors" =>
        /\ res.err = "none"
        /\ ResultIds(res) = {a.id : a \in {x \in authors : article_count(x.id, res.arg) >= 1}}
        /\ Len(res.val) = Cardinality(ResultIds(res))
        /\ \A e \in Entities(res) : \E a \in authors : a.id = e.id[1] /\ a.name = e.name

\* contributors() has run on a magazine in which one author has two or more
\* articles
C15_Witness ==
    /\ res.op = "contributors"
    /\ \E a \in authors : article_count(a.id, res.arg) >= 2
    /\ Len(res.val) >= 1

\* the magazines in which the author has at least one article
MagazinesOf(author_id) == {m \in magazines : article_count(author_id, m.id) >= 1}

\* C16: Author.topic_areas() returns exactly the categories of the magazines
\* in which the author has at least one article, each category once.
C16_TopicAreas ==
    res.op = "topic_areas" =>
        /\ res.err = "none"
        /\ Entities(res) = {m.category : m \in MagazinesOf(res.arg)}
        /\ Len(res.val) = Cardinality(Entities(res))

\* topic_areas() has run for an author with articles in two magazines of
\* one category
C16_Witness ==
    /\ res.op = "topic_areas"
    /\ \E m1, m2 \in MagazinesOf(res.arg) : m1.id # m2.id /\ m1.category = m2.category
    /\ Len(res.val) = 1

\* C17: Author.add_article(magazine, title) with no further argument, on a
\* persisted author and a persisted magazine with a non-blank title and no
\* storage fault, persists one new article, returns it with an id, and the
\* article is then among the rows author.articles() selects.
C17_AddArticle ==
    [][(/\ res'.op = "add_article" /\ res'.opt = None
        /\ res'.arg \in Ids(authors) /\ res'.magazine_id \in Ids(magazines)
        /\ ~IsBlank(res'.title)
        /\ res'.err # "StorageError")
          => /\ res'.err = "none"
             /\ Cardinality(articles') = Cardinality(articles) + 1
             /\ res'.val # None /\ res'.val[1].id # None
             /\ \E r \in articles' \ articles :
                   /\ Some(r.id) = res'.val[1].id
                   /\ r.author_id = res'.arg /\ r.title = res'.title]_vars

\* C18: Magazine.contributing_authors() returns exactly the authors that
\* have at least N articles in the magazine, N being min_articles, or 2 when
\* the call names none, in lib and in projectlib alike.
C18_ContributingAuthors ==
    res.op = "contributing_authors" =>
        LET n == IF res.opt = None THEN 2 ELSE res.opt[1] IN
        /\ res.err = "none"
        /\ ResultIds(res) = {a.id : a \in {x \in authors : article_count(x.id, res.arg) >= n}}

\* the last operation was a successful save() that inserted the held entity
SavedNew ==
    /\ res.op = "save" /\ res.err = "none"
    /\ stmt # None /\ stmt[1].verb = "INSERT"

\* C19: lookup by name finds the entity just saved. When a new Author or
\* Magazine named n has been saved and find_by_name(n) is called next, the
\* call returns an entity whose id is the id the save assigned.
C19_FindSavedByName ==
    [][(/\ SavedNew
        /\ res'.op = "find_by_name" /\ res'.arg = obj[1].name
        /\ res'.opt \in {None, Some(FALSE)})
          => /\ res'.err = "none"
             /\ \E e \in Entities(res') : e.id = obj[1].id]_vars

\* C20: every save and find operation has closed the connection it acquired
\* by the time it returns or raises.
C20_ConnectionsClosed ==
    (res.op \notin {"init", "construct", "assign"} /\ conn.acquired) => ~conn.open

\* ======================================================================
\* Statement order and outcome of add_author_with_articles
\* ======================================================================
\* the positions of the log where statement s ended without error
Done(s) == {i \in 1..Len(tx.log) : tx.log[i].s = s /\ tx.log[i].ok}

Inserts == {"INSERT authors", "INSERT articles"}

Raised == tx.raising # "none"

\* C22 as stated: add_author_with_articles never propagates an exception; it
\* returns True only if COMMIT was executed without error; whenever any step
\* (connection acquisition, validation, an INSERT, COMMIT) raises,
\* transaction() issues ROLLBACK and the call returns False.
C22_OutcomeAsStated ==
    Returned =>
        /\ tx.result \in {Some(TRUE), Some(FALSE)}
        /\ tx.result = Some(TRUE) => Executed("COMMIT")
        /\ Raised => Attempted("ROLLBACK") /\ tx.result = Some(FALSE)

\* C22: add_author_with_articles never propagates an exception; it returns
\* True only if COMMIT was executed without error; whenever a step after the
\* connection was acquired (BEGIN, validation, an INSERT, COMMIT) raises,
\* transaction() issues ROLLBACK and the call returns False; when the
\* connection acquisition raises, no statement is issued and the call
\* returns False.
C22_Outcome ==
    Returned =>
        /\ tx.result \in {Some(TRUE), Some(FALSE)}
        /\ tx.result = Some(TRUE) => Executed("COMMIT")
        /\ (Raised /\ tx.conn # "none") =>
              Attempted("ROLLBACK") /\ tx.result = Some(FALSE)
        /\ (Raised /\ tx.conn = "none") =>
              tx.log = <<>> /\ tx.result = Some(FALSE)

\* a call whose COMMIT raised has issued ROLLBACK and returned False
C22_Witness ==
    /\ Returned
    /\ Attempted("COMMIT") /\ ~Executed("COMMIT")
    /\ Executed("ROLLBACK")
    /\ tx.result = Some(FALSE)

\* the author name of the call is one Author(id=None, name=...) rejects
InvalidAuthorName == Author_validate_name(tx.name) # "none"

\* C23: add_author_with_articles called with an invalid author name aborts
\* before touching storage: when the validation error occurs no connection
\* has been acquired and no statement, not even BEGIN, has been executed.
C23_InvalidNameBeforeStorage ==
    (Called /\ InvalidAuthorName /\ tx.raising = Author_validate_name(tx.name))
        => /\ tx.conn = "none"
           /\ ~Attempted("BEGIN")
           /\ tx.log = <<>>

\* ======================================================================
\* Stored article rows and the lib finders
\* ======================================================================
\* the lib finders that return Article entities
ArticleFinders ==
    {"find_by_id", "find_by_title", "find_by_author", "find_by_magazine",
     "Author.articles", "Magazine.articles"}

\* C24: every article row the repository can write (content NULL included)
\* is returned as an Article entity by the lib finders: no finder raises
\* because of a stored row, and every selected row is in the result.
C24_StoredRowsReadable ==
    (pkg = "lib" /\ cls = "Article" /\ res.op \in ArticleFinders) =>
        /\ res.err = "none"
        /\ IF res.op = "find_by_id"
           THEN res.id \in Ids(articles) => res.val # None
           ELSE Len(res.val) = res.rows

\* ======================================================================
\* COMMIT and ROLLBACK in transaction()
\* ======================================================================
\* the execution of transaction() reached BEGIN and has closed the connection
Closed == tx.conn = "closed" /\ Attempted("BEGIN")

\* the with block ran to its end: the author was inserted and the loop over
\* articles_data is finished
BodyEnded == tx.author_id # None /\ tx.i > Len(tx.data)

\* the with block was entered and left by an exception
BodyRaised == Executed("BEGIN") /\ ~BodyEnded

Failed(s) == \E i \in 1..Len(tx.log) : tx.log[i].s = s /\ ~tx.log[i].ok

\* a ROLLBACK was issued after a COMMIT whose outcome (ok) is in oks
RollbackAfterCommit(oks) ==
    \E i, j \in 1..Len(tx.log) :
        /\ i < j
        /\ tx.log[i].s = "COMMIT" /\ tx.log[i].ok \in oks
        /\ tx.log[j].s = "ROLLBACK"

\* C25 as stated: in every execution of transaction() that reaches BEGIN,
\* exactly one of COMMIT and ROLLBACK is executed before the connection is
\* closed; ROLLBACK is executed if and only if the body raised; ROLLBACK is
\* never executed after COMMIT has been attempted.
C25_CommitXorRollbackAsStated ==
    Closed =>
        /\ Executed("COMMIT") # Executed("ROLLBACK")
        /\ Attempted("ROLLBACK") <=> BodyRaised
        /\ ~RollbackAfterCommit(BOOLEAN)

\* C25: in every execution of transaction() that reaches BEGIN, at least one
\* of COMMIT and ROLLBACK is issued before the connection is closed and at
\* most one of them succeeds; COMMIT is issued if and only if the body ended
\* without raising; ROLLBACK is issued if and only if BEGIN, the body or
\* COMMIT raised; ROLLBACK is never issued after a COMMIT that succeeded.
C25_CommitXorRollback ==
    Closed =>
        /\ Attempted("COMMIT") \/ Attempted("ROLLBACK")
        /\ ~(Executed("COMMIT") /\ Executed("ROLLBACK"))
        /\ Attempted("COMMIT") <=> (Executed("BEGIN") /\ BodyEnded)
        /\ Attempted("ROLLBACK") <=> (Failed("BEGIN") \/ BodyRaised \/ Failed("COMMIT"))
        /\ ~RollbackAfterCommit({TRUE})

\* the connection was closed after a COMMIT that failed and the ROLLBACK
\* that followed it
C25_Witness ==
    /\ Closed
    /\ RollbackAfterCommit({FALSE})
    /\ Executed("ROLLBACK")
====
